---- MODULE Spec2Model ----
(***************************************************************************)
(* The flu-shot-learning tutorial notebook as a state machine.  One run    *)
(* of the notebook ("Restart & Run All") executes its code cells in order; *)
(* an exception raised by a cell stops the run.  The state is the data     *)
(* directory (the four input CSV files and the output file), the kernel's  *)
(* variables (data frames, the pipeline's fitted state, predictions) and   *)
(* the position of the run.                                                *)
(*                                                                         *)
(* Floating-point numbers are modelled in fixed point: a float f is the    *)
(* integer f * ONE.  Raw survey answers in the CSV files are small         *)
(* integers; a missing answer is NaN.                                      *)
(***************************************************************************)
EXTENDS Integers, Sequences, FiniteSets, TLC

VARIABLES
    fs,               \* the data directory: file name -> CSV content
    writes,           \* file names written so far by the current run, in order
    run,              \* number of the current run of the notebook
    prev,             \* what the previous run left behind (split, y_preds, submission)
    pc,               \* the next cell to execute
    status,           \* "running", "done" or "aborted" (a cell raised)
    features_df, labels_df, joined_df,
    counts, h1n1_concern_counts, props,
    ax,               \* the bars drawn on the grid of axes by vaccination_rate_plot
    numeric_cols,
    full_pipeline,    \* the pipeline object: unfitted, or its fitted state
    X_train, X_eval, y_train, y_eval,
    preds, y_preds,
    auc,              \* the reported ROC-AUC values
    test_features_df, test_probas, submission_df,
    probe             \* roc_auc_score applied to a drawn (y_true, y_score)

kernel == <<features_df, labels_df, joined_df, numeric_cols, full_pipeline,
            X_train, X_eval, y_train, y_eval, preds, y_preds, auc,
            test_features_df, test_probas, submission_df>>

\* the variables of the exploratory cells
eda == <<counts, h1n1_concern_counts, props, ax>>

vars == <<fs, writes, run, prev, pc, status, kernel, eda, probe>>

----------------------------------------------------------------------------
(* Bounds of the model *)

MaxRows == 4          \* rows of a training table
MaxTestRows == 2      \* rows of the test table and of the template
MaxRuns == 2          \* runs of the notebook
MaxEntropy == 1       \* OS entropy values an unseeded generator can start from
MaxIter == 3          \* iterations the solver is given
MaxAucLen == 3        \* length of the vectors roc_auc_score is probed with
MaxScore == 2         \* scores of the probe are 0..MaxScore
MaxSplitRows == 7     \* rows of the tables train_test_split is probed with
MaxPlotRows == 2      \* rows of the tables vaccination_rate_plot is probed with

----------------------------------------------------------------------------
(* Values *)

ONE == 1000                  \* the float 1.0 in fixed point
NaN == 0 - 1000000           \* numpy's NaN: a missing value
RANDOM_SEED == 6

Undefined == [undefined |-> TRUE]     \* a name the kernel has not bound yet

Range(s) == {s[i] : i \in 1..Len(s)}

RECURSIVE SumSeq(_)
SumSeq(s) == IF s = <<>> THEN 0 ELSE Head(s) + SumSeq(Tail(s))

\* the positions of s that hold v, ascending
RECURSIVE IndicesOf(_, _, _)
IndicesOf(s, v, i) ==
    IF i > Len(s) THEN <<>>
    ELSE (IF s[i] = v THEN <<i>> ELSE <<>>) \o IndicesOf(s, v, i + 1)

\* the positions of s that do not hold v, ascending
RECURSIVE IndicesNot(_, _, _)
IndicesNot(s, v, i) ==
    IF i > Len(s) THEN <<>>
    ELSE (IF s[i] # v THEN <<i>> ELSE <<>>) \o IndicesNot(s, v, i + 1)

Take(s, idx) == [i \in 1..Len(idx) |-> s[idx[i]]]

\* s with x inserted before the first larger element
RECURSIVE Insert(_, _)
Insert(s, x) ==
    IF s = <<>> THEN <<x>>
    ELSE IF x <= Head(s) THEN <<x>> \o s
    ELSE <<Head(s)>> \o Insert(Tail(s), x)

\* np.sort
RECURSIVE Sorted(_)
Sorted(s) == IF s = <<>> THEN <<>> ELSE Insert(Sorted(Tail(s)), Head(s))

IndexOf(s, e) == CHOOSE i \in 1..Len(s) : s[i] = e

Abs(x) == IF x < 0 THEN 0 - x ELSE x

RECURSIVE SortedSeqOf(_)
SortedSeqOf(S) ==
    IF S = {} THEN <<>>
    ELSE LET m == CHOOSE x \in S : \A y \in S : x <= y
         IN  <<m>> \o SortedSeqOf(S \ {m})

\* np.unique: the distinct values, ascending
unique(s) == SortedSeqOf(Range(s))

----------------------------------------------------------------------------
(* CSV files and data frames *)

\* A CSV file is a header line and the data lines; a column's kind is what
\* its text parses as: "int" (integers), "float" (numbers, empty = NaN) or
\* "str" (text).
CsvFile(header, kinds, rows) == [header |-> header, kinds |-> kinds, rows |-> rows]

DropAt(s, k) == [i \in 1..(Len(s) - 1) |-> IF i < k THEN s[i] ELSE s[i + 1]]

\* pd.read_csv(path, index_col=...): the named column becomes the index, the
\* other columns keep their order; text columns get dtype object
read_csv(file, index_col) ==
    LET k == IndexOf(file.header, index_col)
    IN  [index_name |-> index_col,
         columns |-> DropAt(file.header, k),
         dtypes |-> [i \in 1..(Len(file.header) - 1) |->
                        LET kind == DropAt(file.kinds, k)[i]
                        IN  IF kind = "str" THEN "object"
                            ELSE IF kind = "int" THEN "int64" ELSE "float64"],
         index |-> [r \in 1..Len(file.rows) |-> file.rows[r][k]],
         data |-> [r \in 1..Len(file.rows) |-> DropAt(file.rows[r], k)]]

KindOf(dtype) == IF dtype = "object" THEN "str"
                 ELSE IF dtype = "int64" THEN "int" ELSE "float"

\* the data columns alone, whatever `index` says
to_csv_without_index(df, index) ==
    CsvFile(df.columns, [i \in 1..Len(df.dtypes) |-> KindOf(df.dtypes[i])], df.data)

\* df.to_csv(path, index=...): the index is written as the first column
to_csv(df, index) ==
    LET kinds == [i \in 1..Len(df.dtypes) |-> KindOf(df.dtypes[i])]
    IN  IF index
        THEN CsvFile(<<df.index_name>> \o df.columns, <<"int">> \o kinds,
                     [r \in 1..Len(df.index) |-> <<df.index[r]>> \o df.data[r]])
        ELSE CsvFile(df.columns, kinds, df.data)

NRows(df) == Len(df.index)

\* df[name]: the values of a column
Column(df, name) ==
    LET c == IndexOf(df.columns, name)
    IN  [r \in 1..NRows(df) |-> df.data[r][c]]

\* df.iloc[idx]: a new frame with the rows at the positions idx
iloc(df, idx) ==
    [df EXCEPT !.index = [i \in 1..Len(idx) |-> df.index[idx[i]]],
               !.data = [i \in 1..Len(idx) |-> df.data[idx[i]]]]

\* df[name] = values: overwrite the column in place, or append a new one
SetColumn(df, name, values) ==
    IF name \in Range(df.columns)
    THEN LET c == IndexOf(df.columns, name)
         IN  [df EXCEPT !.data = [r \in 1..NRows(df) |->
                                     [df.data[r] EXCEPT ![c] = values[r]]],
                        !.dtypes[c] = "float64"]
    ELSE [df EXCEPT !.columns = Append(df.columns, name),
                    !.dtypes = Append(df.dtypes, "float64"),
                    !.data = [r \in 1..NRows(df) |-> Append(df.data[r], values[r])]]

\* np.testing.assert_array_equal(a, b) on two 1-d arrays: passes iff the
\* shapes agree and the arrays agree element by element
assert_array_equal(a, b) ==
    /\ Len(a) = Len(b)
    /\ \A i \in 1..Len(a) : a[i] = b[i]

\* left.join(right): a left join on the index; a left row is paired with
\* every right row of the same key, or with NaNs when there is none
RECURSIVE JoinRows(_, _, _)
JoinRows(left, right, i) ==
    IF i > NRows(left) THEN <<>>
    ELSE LET key == left.index[i]
             matches == IndicesOf(right.index, key, 1)
             nans == [c \in 1..Len(right.columns) |-> NaN]
             rows == IF matches = <<>>
                     THEN << <<key, left.data[i] \o nans>> >>
                     ELSE [m \in 1..Len(matches) |->
                              <<key, left.data[i] \o right.data[matches[m]]>>]
         IN  rows \o JoinRows(left, right, i + 1)

\* rows in the order of their keys
RECURSIVE InsertRow(_, _)
InsertRow(rows, row) ==
    IF rows = <<>> THEN <<row>>
    ELSE IF row[1] < Head(rows)[1] THEN <<row>> \o rows
    ELSE <<Head(rows)>> \o InsertRow(Tail(rows), row)

RECURSIVE SortRows(_)
SortRows(rows) ==
    IF rows = <<>> THEN <<>>
    ELSE InsertRow(SortRows(SubSeq(rows, 1, Len(rows) - 1)), rows[Len(rows)])

\* left.join(right, sort=True): the joined rows ordered by key
join_sorted(left, right) ==
    LET rows == SortRows(JoinRows(left, right, 1))
    IN  [index_name |-> left.index_name,
         columns |-> left.columns \o right.columns,
         dtypes |-> left.dtypes \o right.dtypes,
         index |-> [r \in 1..Len(rows) |-> rows[r][1]],
         data |-> [r \in 1..Len(rows) |-> rows[r][2]]]

join(left, right) ==
    LET rows == JoinRows(left, right, 1)
    IN  [index_name |-> left.index_name,
         columns |-> left.columns \o right.columns,
         dtypes |-> left.dtypes \o right.dtypes,
         index |-> [r \in 1..Len(rows) |-> rows[r][1]],
         data |-> [r \in 1..Len(rows) |-> rows[r][2]]]

----------------------------------------------------------------------------
(* Preprocessing: StandardScaler, then SimpleImputer(strategy='median') *)

Observed(col) == Take(col, IndicesNot(col, NaN, 1))

\* floor of the square root
RECURSIVE ISqrtBetween(_, _, _)
ISqrtBetween(v, lo, hi) ==
    IF lo >= hi THEN lo
    ELSE LET mid == (lo + hi + 1) \div 2
         IN  IF mid * mid <= v THEN ISqrtBetween(v, mid, hi)
             ELSE ISqrtBetween(v, lo, mid - 1)

ISqrt(v) == ISqrtBetween(v, 0, 46340)

\* StandardScaler.fit on one column of raw values: the mean and the
\* (population) standard deviation of the observed values; a zero deviation
\* is replaced by 1
ScalerFit(col) ==
    LET obs == Observed(col)
        n == Len(obs)
        mean == SumSeq([i \in 1..n |-> obs[i] * ONE]) \div n
        var == SumSeq([i \in 1..n |-> (obs[i] * ONE - mean) * (obs[i] * ONE - mean)]) \div n
        std == ISqrt(var)
    IN  IF n = 0 THEN [mean |-> NaN, scale |-> NaN]
        ELSE [mean |-> mean, scale |-> IF std = 0 THEN ONE ELSE std]

\* StandardScaler.transform of one raw value; NaN stays NaN
ScalerTransform(sc, x) ==
    IF x = NaN \/ sc.mean = NaN THEN NaN
    ELSE ((x * ONE - sc.mean) * ONE) \div sc.scale

\* np.nanmedian of a column; NaN when nothing is observed
Median(col) ==
    LET obs == Sorted(Observed(col))
        n == Len(obs)
    IN  IF n = 0 THEN NaN
        ELSE IF n % 2 = 1 THEN obs[(n + 1) \div 2]
        ELSE (obs[n \div 2] + obs[n \div 2 + 1]) \div 2

\* SimpleImputer.transform of one value with the fitted statistic
Impute(median, z) == IF z = NaN THEN median ELSE z

\* ColumnTransformer.fit on the columns `cols` of X: per column the scaler
\* statistics and the median of the scaled column
PreprocessorFit(X, cols) ==
    [j \in 1..Len(cols) |->
        LET col == Column(X, cols[j])
            sc == ScalerFit(col)
        IN  [mean |-> sc.mean, scale |-> sc.scale,
             median |-> Median([r \in 1..Len(col) |-> ScalerTransform(sc, col[r])])]]

\* the columns the imputer keeps: a column with no observed value at fit
\* time is dropped from its output
KeptFeatures(stats) == IndicesNot([j \in 1..Len(stats) |-> stats[j].median], NaN, 1)

\* fit_transform in the place of transform: the imputer fills a missing
\* value with the median of the rows being transformed
PreprocessorFitTransform(stats, cols, X) ==
    LET kept == KeptFeatures(stats)
    IN  [r \in 1..NRows(X) |->
            [k \in 1..Len(kept) |->
                LET j == kept[k]
                    col == Column(X, cols[j])
                IN  Impute(Median([i \in 1..Len(col) |-> ScalerTransform(stats[j], col[i])]),
                           ScalerTransform(stats[j], col[r]))]]

\* an ordinal code for a text value
OrdinalCode(v) == IF v = "Female" THEN 0 ELSE ONE

\* a transformer list with an encoder for the text columns: their codes
\* follow the numeric columns in the matrix
PreprocessorTransformEncoded(stats, cols, X) ==
    LET kept == KeptFeatures(stats)
        text == IndicesOf(X.dtypes, "object", 1)
    IN  [r \in 1..NRows(X) |->
            [k \in 1..Len(kept) |->
                Impute(stats[kept[k]].median,
                       ScalerTransform(stats[kept[k]], Column(X, cols[kept[k]])[r]))]
            \o [k \in 1..Len(text) |-> OrdinalCode(X.data[r][text[k]])]]

\* ColumnTransformer.transform: the matrix the estimators see; every other
\* column of X is dropped (remainder='drop')
PreprocessorTransform(stats, cols, X) ==
    LET kept == KeptFeatures(stats)
    IN  [r \in 1..NRows(X) |->
            [k \in 1..Len(kept) |->
                LET j == kept[k]
                IN  Impute(stats[j].median,
                           ScalerTransform(stats[j], Column(X, cols[j])[r]))]]

----------------------------------------------------------------------------
(* LogisticRegression(penalty="l2", C=1), one per target *)

Dot(w, x) == SumSeq([j \in 1..Len(w) |-> (w[j] * x[j]) \div ONE])

\* the decision value w.x + b of one row
Decision(m, x) == Dot(m.coef, x) + m.intercept

\* the logistic function, into [0, ONE]
Expit(z) == (ONE + (z * ONE) \div (ONE + Abs(z))) \div 2

\* one descent step on  C * sum(logloss) + |w|^2 / 2  with C = 1
SolverStep(m, Z, y) ==
    LET n == Len(Z)
        err == [i \in 1..n |-> Expit(Decision(m, Z[i])) - y[i] * ONE]
        gw == [j \in 1..Len(m.coef) |->
                  SumSeq([i \in 1..n |-> (err[i] * Z[i][j]) \div ONE]) + m.coef[j]]
    IN  [coef |-> [j \in 1..Len(m.coef) |-> m.coef[j] - gw[j] \div 4],
         intercept |-> m.intercept - SumSeq(err) \div 4]

RECURSIVE Solve(_, _, _, _)
Solve(m, Z, y, iters) ==
    IF iters = 0 THEN m ELSE Solve(SolverStep(m, Z, y), Z, y, iters - 1)

\* LogisticRegression.fit: from a zero start (warm_start=False), MaxIter
\* solver iterations; raises without features or with a single class in y
LogisticRegressionFit(Z, y) ==
    IF Len(Z) = 0 \/ Len(Z[1]) = 0 \/ Cardinality(Range(y)) < 2
    THEN [ok |-> FALSE]
    ELSE LET m0 == [coef |-> [j \in 1..Len(Z[1]) |-> 0], intercept |-> 0]
             m == Solve(m0, Z, y, MaxIter)
         IN  [ok |-> TRUE, coef |-> m.coef, intercept |-> m.intercept,
              classes |-> unique(y)]

\* LogisticRegression.decision_function in the place of predict_proba: one
\* row <<-d, d>> of decision values per row of Z
LogisticRegressionDecisionFunction(m, Z) ==
    [r \in 1..Len(Z) |-> <<0 - Decision(m, Z[r]), Decision(m, Z[r])>>]

\* LogisticRegression.predict_proba: one row <<P(classes[1]), P(classes[2])>>
\* per row of Z
LogisticRegressionPredictProba(m, Z) ==
    [r \in 1..Len(Z) |->
        LET p == Expit(Decision(m, Z[r]))
        IN  <<ONE - p, p>>]

----------------------------------------------------------------------------
(* The pipeline: preprocessor, then MultiOutputClassifier *)

Targets == <<"h1n1_vaccine", "seasonal_vaccine">>

\* the pipeline as built, before any fit
UnfittedPipeline(cols) == [fitted |-> FALSE, cols |-> cols]

\* MultiOutputClassifier.fit: an independent estimator per column of y
MultiOutputFit(Z, y) ==
    [t \in 1..Len(y.columns) |-> LogisticRegressionFit(Z, Column(y, y.columns[t]))]

\* Pipeline.fit(X, y): every step is fitted anew on (X, y); the result
\* replaces whatever fitted state the pipeline had.  ok = FALSE: fit raised.
PipelineFit(pipeline, X, y) ==
    LET stats == PreprocessorFit(X, pipeline.cols)
        Z == PreprocessorTransform(stats, pipeline.cols, X)
        est == MultiOutputFit(Z, y)
    IN  IF \E t \in 1..Len(est) : ~est[t].ok
        THEN [ok |-> FALSE]
        ELSE [ok |-> TRUE,
              state |-> [fitted |-> TRUE, cols |-> pipeline.cols,
                         stats |-> stats, estimators |-> est]]

\* Pipeline.predict_proba(X): a list with one (n_obs, 2) array per target;
\* raises on an empty X
PipelinePredictProba(pipeline, X) ==
    IF NRows(X) = 0 THEN [ok |-> FALSE]
    ELSE LET Z == PreprocessorTransform(pipeline.stats, pipeline.cols, X)
         IN  [ok |-> TRUE,
              probas |-> [t \in 1..Len(pipeline.estimators) |->
                             LogisticRegressionPredictProba(pipeline.estimators[t], Z)]]

\* arr[:, 0]: the first column of an (n_obs, 2) array
FirstColumn(arr) == [r \in 1..Len(arr) |-> arr[r][1]]

\* arr[:, 1]: the second column of an (n_obs, 2) array
SecondColumn(arr) == [r \in 1..Len(arr) |-> arr[r][2]]

----------------------------------------------------------------------------
(* The random generator and train_test_split *)

RngMul == 75
RngInc == 74
RngMod == 65537

RngNext(s) == (s * RngMul + RngInc) % RngMod

\* a generator started from OS entropy, as for random_state=None
check_random_state_unseeded(seed, entropy) == RngNext(entropy)

\* check_random_state(seed): a generator started from the seed
check_random_state(seed, entropy) == RngNext(seed)

\* rng.permutation(n): a Fisher-Yates shuffle of 1..n, from position n down;
\* returns the permutation and the generator's next state
RECURSIVE Shuffle(_, _, _)
Shuffle(x, i, s) ==
    IF i <= 1 THEN [val |-> x, rng |-> s]
    ELSE LET j == (s % i) + 1
         IN  Shuffle([x EXCEPT ![i] = x[j], ![j] = x[i]], i - 1, RngNext(s))

Permutation(n, s) == Shuffle([i \in 1..n |-> i], n, s)

\* rng.choice(inds, size, replace=False): the first `size` elements of a
\* shuffle of inds
ChooseFrom(inds, size, perm) == {inds[perm.val[k]] : k \in 1..size}

Min(a, b) == IF a < b THEN a ELSE b

\* sklearn's _approximate_mode: how many of n_draws go to each class, in
\* proportion to class_counts; the draws left over after rounding down go
\* to the classes with the largest remainders, ties broken by the generator
RECURSIVE AddLeftover(_, _, _, _, _)
AddToTied(floored, rem, values, need, inds, perm) ==
    AddLeftover([c \in 1..Len(floored) |->
                    floored[c] + (IF c \in ChooseFrom(inds, Min(Len(inds), need), perm)
                                  THEN 1 ELSE 0)],
                rem, Tail(values), need - Min(Len(inds), need), perm.rng)

TiedAt(floored, rem, values, need, s, inds) ==
    AddToTied(floored, rem, values, need, inds, Permutation(Len(inds), s))

AddLeftover(floored, rem, values, need, s) ==
    IF need = 0 \/ values = <<>> THEN [val |-> floored, rng |-> s]
    ELSE TiedAt(floored, rem, values, need, s,
                IndicesOf(rem, Head(values), 1))

Reverse(s) == [i \in 1..Len(s) |-> s[Len(s) + 1 - i]]

RoundedDown(class_counts, n_draws, total) ==
    [c \in 1..Len(class_counts) |-> (class_counts[c] * n_draws) \div total]

Remainders(class_counts, n_draws, total) ==
    [c \in 1..Len(class_counts) |-> (class_counts[c] * n_draws) % total]

ApproximateModeOf(floored, rem, n_draws, s) ==
    AddLeftover(floored, rem, Reverse(unique(rem)), n_draws - SumSeq(floored), s)

approximate_mode(class_counts, n_draws, s) ==
    ApproximateModeOf(RoundedDown(class_counts, n_draws, SumSeq(class_counts)),
                      Remainders(class_counts, n_draws, SumSeq(class_counts)),
                      n_draws, s)

\* the class of a row of the stratify frame: its two labels read together
\* ("0 0" < "0 1" < "1 0" < "1 1")
RowClass(row) == 2 * row[1] + row[2]

\* per class: shuffle the class's rows, the first n_i go to train, the next
\* t_i to test
RECURSIVE AssignClasses(_, _, _, _, _)
AssignRest(rows, n, t, rest) ==
    [train |-> SubSeq(rows, 1, n) \o rest.train,
     test |-> SubSeq(rows, n + 1, n + t) \o rest.test,
     rng |-> rest.rng]

AssignClass(class_indices, n_i, t_i, c, perm) ==
    AssignRest(Take(class_indices[c], perm.val), n_i[c], t_i[c],
               AssignClasses(class_indices, n_i, t_i, c + 1, perm.rng))

AssignClasses(class_indices, n_i, t_i, c, s) ==
    IF c > Len(class_indices) THEN [train |-> <<>>, test |-> <<>>, rng |-> s]
    ELSE AssignClass(class_indices, n_i, t_i, c,
                     Permutation(Len(class_indices[c]), s))

\* ceil(test_size * n_samples) for test_size = 0.33
TestSizePercent == 33
NTest(n) == (TestSizePercent * n + 99) \div 100

\* the positions of the rows of each class, ascending
ClassIndices(labels, classes) ==
    [c \in 1..Len(classes) |-> IndicesOf(labels, classes[c], 1)]

\* train = rng.permutation(train); test = rng.permutation(test)
ShuffleTest(parts, ptrain, ptest) ==
    [ok |-> TRUE, train |-> Take(parts.train, ptrain.val),
     test |-> Take(parts.test, ptest.val)]

ShuffleTrain(parts, ptrain) ==
    ShuffleTest(parts, ptrain, Permutation(Len(parts.test), ptrain.rng))

ShuffleParts(parts) == ShuffleTrain(parts, Permutation(Len(parts.train), parts.rng))

DrawTest(class_indices, ni, ti) ==
    ShuffleParts(AssignClasses(class_indices, ni.val, ti.val, 1, ti.rng))

DrawTrain(class_indices, n_test, ni) ==
    DrawTest(class_indices, ni,
             approximate_mode([c \in 1..Len(class_indices) |->
                                  Len(class_indices[c]) - ni.val[c]],
                              n_test, ni.rng))

\* StratifiedShuffleSplit._iter_indices for the classes' row positions
SplitClasses(class_indices, n, n_test, s0) ==
    IF \/ n - n_test <= 0
       \/ \E c \in 1..Len(class_indices) : Len(class_indices[c]) < 2
       \/ n - n_test < Len(class_indices)
       \/ n_test < Len(class_indices)
    THEN [ok |-> FALSE]
    ELSE DrawTrain(class_indices, n_test,
                   approximate_mode([c \in 1..Len(class_indices) |-> Len(class_indices[c])],
                                    n - n_test, s0))

SplitLabels(labels, n_test, s0) ==
    SplitClasses(ClassIndices(labels, unique(labels)), Len(labels), n_test, s0)

\* ShuffleSplit, as for stratify=None: the first n_test rows of one
\* permutation are the test rows, the others the train rows
ShuffleSplit(y, s0) ==
    IF NRows(y) - NTest(NRows(y)) <= 0 THEN [ok |-> FALSE]
    ELSE [ok |-> TRUE,
          train |-> SubSeq(Permutation(NRows(y), s0).val, NTest(NRows(y)) + 1, NRows(y)),
          test |-> SubSeq(Permutation(NRows(y), s0).val, 1, NTest(NRows(y)))]

\* StratifiedShuffleSplit, one split: the positions of the train rows and of
\* the test rows.  ok = FALSE: the split raised (an empty part, a class with
\* fewer than 2 members, or fewer rows in a part than classes).
StratifiedShuffleSplit(y, s0) ==
    SplitLabels([r \in 1..NRows(y) |-> RowClass(y.data[r])], NTest(NRows(y)), s0)

SplitFrames(X, y, sp) ==
    IF ~sp.ok THEN [ok |-> FALSE]
    ELSE [ok |-> TRUE,
          X_train |-> iloc(X, sp.train), X_eval |-> iloc(X, sp.test),
          y_train |-> iloc(y, sp.train), y_eval |-> iloc(y, sp.test)]

\* train_test_split(X, y, test_size=0.33, shuffle=True, stratify=y,
\* random_state=seed): four new frames
train_test_split(X, y, seed, entropy) ==
    SplitFrames(X, y, StratifiedShuffleSplit(y, check_random_state(seed, entropy)))

----------------------------------------------------------------------------
(* ROC-AUC *)

\* the ROC curve's points <<fps, tps>> (as counts) after the origin: one per
\* distinct score, from the highest threshold down; a point counts the
\* negatives and positives scored at or above the threshold
RocPoints(y_true, y_score) ==
    LET thresholds == Reverse(unique(y_score))
        n == Len(y_true)
    IN  [k \in 1..Len(thresholds) |->
            <<Cardinality({i \in 1..n : y_true[i] = 0 /\ y_score[i] >= thresholds[k]}),
              Cardinality({i \in 1..n : y_true[i] = 1 /\ y_score[i] >= thresholds[k]})>>]

\* a step up to the later point instead of a trapezoid, times 2
Step2(a, b) == (b[1] - a[1]) * (2 * b[2])

\* trapezoid between two consecutive points, times 2
Trapezoid2(a, b) == (b[1] - a[1]) * (b[2] + a[2])

\* twice the area under the curve through the origin and the points
RECURSIVE Area2(_, _)
Area2(last, points) ==
    IF points = <<>> THEN 0
    ELSE Trapezoid2(last, Head(points)) + Area2(Head(points), Tail(points))

\* roc_auc_score(y_true, y_score) for one target: the area under the ROC
\* curve as the fraction num / den; raises unless y_true has two classes
roc_auc_score(y_true, y_score) ==
    IF Cardinality(Range(y_true)) # 2 THEN [ok |-> FALSE]
    ELSE LET P == Cardinality({i \in 1..Len(y_true) : y_true[i] = 1})
             N == Len(y_true) - P
         IN  [ok |-> TRUE,
              num |-> Area2(<<0, 0>>, RocPoints(y_true, y_score)),
              den |-> 2 * P * N]

\* average='micro' in the place of the default: one curve over the labels
\* and scores of all targets pooled
roc_auc_score_micro(y, scores) ==
    roc_auc_score(Column(y, y.columns[1]) \o Column(y, y.columns[2]),
                  Column(scores, y.columns[1]) \o Column(scores, y.columns[2]))

\* roc_auc_score(y_eval, y_preds) on two-column frames: the macro average
roc_auc_score_multilabel(y, scores) ==
    LET a == [t \in 1..Len(y.columns) |->
                 roc_auc_score(Column(y, y.columns[t]), Column(scores, y.columns[t]))]
    IN  IF \E t \in 1..Len(a) : ~a[t].ok THEN [ok |-> FALSE]
        ELSE [ok |-> TRUE,
              num |-> a[1].num * a[2].den + a[2].num * a[1].den,
              den |-> 2 * a[1].den * a[2].den]

----------------------------------------------------------------------------
(* Exploration: counts and vaccination rates per level of a feature *)

\* the values a text column can hold, in sorted order
Categories == <<"Female", "Male">>

\* the position of the column `name` of df
ColumnIndex(df, name) == IndexOf(df.columns, name)

\* pd.isna of the cell (r, c) of df; text is never missing
IsNa(df, r, c) == df.dtypes[c] # "object" /\ df.data[r][c] = NaN

\* the members of seq that are in S, in the order of seq
RECURSIVE FilterSeq(_, _)
FilterSeq(seq, S) ==
    IF seq = <<>> THEN <<>>
    ELSE (IF Head(seq) \in S THEN <<Head(seq)>> ELSE <<>>) \o FilterSeq(Tail(seq), S)

\* the group keys of column c over the rows `rows`: its distinct values, sorted
GroupKeys(df, c, rows) ==
    IF df.dtypes[c] = "object"
    THEN FilterSeq(Categories, {df.data[r][c] : r \in rows})
    ELSE SortedSeqOf({df.data[r][c] : r \in rows})

\* a cell of the unstacked table: the size of the group, NaN for a
\* combination without observations
GroupSize(df, rows, c, level, t, value) ==
    LET size == Cardinality({r \in rows : df.data[r][c] = level /\ df.data[r][t] = value})
    IN  IF size = 0 THEN NaN ELSE size

UnstackedSizes(df, rows, c, t, levels, values) ==
    [index |-> levels, columns |-> values,
     data |-> [i \in 1..Len(levels) |->
                  [k \in 1..Len(values) |-> GroupSize(df, rows, c, levels[i], t, values[k])]]]

GroupedRows(df, c, t) == {r \in 1..NRows(df) : ~IsNa(df, r, c) /\ ~IsNa(df, r, t)}

\* df[[col, target]].groupby([col, target]).size().unstack(target): one row
\* per level of col, one column per value of target; rows with a missing
\* key are left out of the groups
size_unstack(df, col, target) ==
    UnstackedSizes(df, GroupedRows(df, ColumnIndex(df, col), ColumnIndex(df, target)),
                   ColumnIndex(df, col), ColumnIndex(df, target),
                   GroupKeys(df, ColumnIndex(df, col),
                             GroupedRows(df, ColumnIndex(df, col), ColumnIndex(df, target))),
                   GroupKeys(df, ColumnIndex(df, target),
                             GroupedRows(df, ColumnIndex(df, col), ColumnIndex(df, target))))

\* counts.sum(axis='columns'): per level the sum of its cells, NaN skipped
sum_columns(table) ==
    [i \in 1..Len(table.index) |->
        SumSeq([k \in 1..Len(table.columns) |->
                   IF table.data[i][k] = NaN THEN 0 ELSE table.data[i][k]])]

\* a float that is the quotient of two counts, and the NaN among them
Quotient(n, d) == [num |-> n, den |-> d]
NaNQuotient == [nan |-> TRUE]

\* every cell divided by the number of all observations
div_by_total(table, group_counts) ==
    [table EXCEPT !.data =
        [i \in 1..Len(table.index) |->
            [k \in 1..Len(table.columns) |->
                IF table.data[i][k] = NaN THEN NaNQuotient
                ELSE Quotient(table.data[i][k], SumSeq(group_counts))]]]

\* counts.div(group_counts, axis='index'): every cell divided by the count of
\* its level; NaN stays NaN
div(table, group_counts) ==
    [table EXCEPT !.data =
        [i \in 1..Len(table.index) |->
            [k \in 1..Len(table.columns) |->
                IF table.data[i][k] = NaN THEN NaNQuotient
                ELSE Quotient(table.data[i][k], group_counts[i])]]]

\* table.plot(kind="barh"): raises on a table without columns (no numeric
\* data to plot); a NaN cell is drawn as a bar of length 0
CanPlot(table) == Len(table.columns) > 0

Bars(table) ==
    [table EXCEPT !.data =
        [i \in 1..Len(table.index) |->
            [k \in 1..Len(table.columns) |->
                IF table.data[i][k] = NaNQuotient THEN Quotient(0, 1)
                ELSE table.data[i][k]]]]

\* vaccination_rate_plot(col, target, data, ax): the bars it draws;
\* ok = FALSE: it raised
RatePlot(table) ==
    IF CanPlot(table)
    THEN [ok |-> TRUE, bars |-> Bars(div(table, sum_columns(table)))]
    ELSE [ok |-> FALSE]

vaccination_rate_plot(col, target, data) ==
    RatePlot(size_unstack(joined_df, col, target))

\* the columns of the feature table that are plotted
cols_to_plot == <<"h1n1_concern", "sex">>

----------------------------------------------------------------------------
(* The data directory *)

TRAIN_FEATURES == "raw/training_set_features.csv"
TRAIN_LABELS == "raw/training_set_labels.csv"
TEST_FEATURES == "raw/test_set_features.csv"
SUBMISSION_FORMAT == "raw/submission_format.csv"

OutputOverTestFeatures == TEST_FEATURES

OUTPUT_DATA_PATH == "processed/my_submission.csv"

InputFiles == {TRAIN_FEATURES, TRAIN_LABELS, TEST_FEATURES, SUBMISSION_FORMAT}
FileNames == InputFiles \cup {OUTPUT_DATA_PATH}

NoFile == [missing |-> TRUE]

\* key columns of n rows: ascending, descending, with a repeated key, and
\* with other key values
KeySeqs(n) ==
    { [i \in 1..n |-> i], [i \in 1..n |-> n + 1 - i],
      [i \in 1..n |-> IF i = 1 THEN 1 ELSE i - 1], [i \in 1..n |-> i + 1] }

Answers == <<NaN, 0, 1>>

\* all answer columns of n rows
AllAnswerVecs(n) == [1..n -> Range(Answers)]

\* what a respondent can be: an answer and the two labels
Respondents ==
    << <<NaN, <<0, 0>>>>, <<NaN, <<0, 1>>>>, <<NaN, <<1, 0>>>>, <<NaN, <<1, 1>>>>,
       <<0, <<0, 0>>>>, <<0, <<0, 1>>>>, <<0, <<1, 0>>>>, <<0, <<1, 1>>>>,
       <<1, <<0, 0>>>>, <<1, <<0, 1>>>>, <<1, <<1, 0>>>>, <<1, <<1, 1>>>> >>

\* the populations of n respondents, each listed in the order of Respondents
Populations(n) ==
    {d \in [1..n -> 1..Len(Respondents)] : \A i \in 1..(n - 1) : d[i] <= d[i + 1]}

SexOf(i) == IF i % 2 = 1 THEN "Female" ELSE "Male"

FeaturesFile(keys, answers) ==
    CsvFile(<<"respondent_id", "h1n1_concern", "sex">>, <<"int", "float", "str">>,
            [i \in 1..Len(keys) |-> <<keys[i], answers[i], SexOf(i)>>])

LabelsFile(keys, labels) ==
    CsvFile(<<"respondent_id", "h1n1_vaccine", "seasonal_vaccine">>,
            <<"int", "int", "int">>,
            [i \in 1..Len(keys) |-> <<keys[i], labels[i][1], labels[i][2]>>])

\* the template: the two target columns (in either order) filled with 0.5
\* and 0.7
TemplateFile(keys, h1n1_first) ==
    CsvFile(IF h1n1_first
            THEN <<"respondent_id", "h1n1_vaccine", "seasonal_vaccine">>
            ELSE <<"respondent_id", "seasonal_vaccine", "h1n1_vaccine">>,
            <<"int", "float", "float">>,
            [i \in 1..Len(keys) |-> <<keys[i], ONE \div 2, (7 * ONE) \div 10>>])

\* a plain data set of n rows: one row with a missing answer, labels that
\* alternate between (0, 0) and (1, 1)
PlainAnswers(n) == [i \in 1..n |-> IF i = 1 THEN NaN ELSE (i \div 2) % 2]
PlainLabels(n) == [i \in 1..n |-> <<i % 2, i % 2>>]

Directory(train_features, train_labels, test_features, template) ==
    [f \in FileNames |->
        IF f = TRAIN_FEATURES THEN train_features
        ELSE IF f = TRAIN_LABELS THEN train_labels
        ELSE IF f = TEST_FEATURES THEN test_features
        ELSE IF f = SUBMISSION_FORMAT THEN template
        ELSE NoFile]

\* a plain test table and template
PlainTest == FeaturesFile(<<1, 2>>, <<NaN, 1>>)
PlainTemplate == TemplateFile(<<1, 2>>, TRUE)

\* the directories the runs start from: all key columns with plain values,
\* all training populations with plain keys, and, with a plain training set,
\* all key columns of the test table and the template and all test answers;
\* and a larger training set with three combinations of the labels
KeySweep ==
    \E nf \in 0..MaxRows, nl \in 0..MaxRows :
        \E kf \in KeySeqs(nf), kl \in KeySeqs(nl) :
            fs = Directory(FeaturesFile(kf, PlainAnswers(nf)),
                           LabelsFile(kl, PlainLabels(nl)),
                           PlainTest, PlainTemplate)

ValueSweep ==
    \E n \in 0..MaxRows :
        \E d \in Populations(n) :
            fs = Directory(FeaturesFile([i \in 1..n |-> i],
                                        [i \in 1..n |-> Respondents[d[i]][1]]),
                           LabelsFile([i \in 1..n |-> i],
                                      [i \in 1..n |-> Respondents[d[i]][2]]),
                           PlainTest, PlainTemplate)

TestKeySweep ==
    \E nt \in 0..MaxTestRows, ns \in 0..MaxTestRows :
        \E kt \in KeySeqs(nt), ks \in KeySeqs(ns), first \in BOOLEAN :
            fs = Directory(FeaturesFile([i \in 1..MaxRows |-> i], PlainAnswers(MaxRows)),
                           LabelsFile([i \in 1..MaxRows |-> i], PlainLabels(MaxRows)),
                           FeaturesFile(kt, PlainAnswers(nt)),
                           TemplateFile(ks, first))

TestValueSweep ==
    \E nt \in 0..MaxTestRows :
        \E a \in AllAnswerVecs(nt) :
            fs = Directory(FeaturesFile([i \in 1..MaxRows |-> i], PlainAnswers(MaxRows)),
                           LabelsFile([i \in 1..MaxRows |-> i], PlainLabels(MaxRows)),
                           FeaturesFile([i \in 1..nt |-> i], a),
                           TemplateFile([i \in 1..nt |-> i], TRUE))

\* a training set with three combinations of the two labels, the fewest rows
\* that train_test_split can stratify three combinations over
MixedLabels ==
    << <<0, 0>>, <<0, 1>>, <<1, 1>>, <<0, 0>>, <<1, 1>>, <<0, 1>>, <<1, 1>> >>

\* a column of answers with at most one of them missing
WithMissing(answers, missing) ==
    [i \in 1..Len(answers) |-> IF i = missing THEN NaN ELSE answers[i]]

MixedSweep ==
    \E a \in [1..Len(MixedLabels) -> {0, 1}], missing \in {0, 1, Len(MixedLabels)} :
        fs = Directory(FeaturesFile([i \in 1..Len(MixedLabels) |-> i],
                                    WithMissing(a, missing)),
                       LabelsFile([i \in 1..Len(MixedLabels) |-> i], MixedLabels),
                       PlainTest, PlainTemplate)

----------------------------------------------------------------------------
(* The run *)

CellsWriteBeforeOverwrite ==
    <<"load_training", "assert_training_keys", "join", "counts",
      "counts_plot", "props", "vaccination_rate_plots", "numeric_cols",
      "build_pipeline", "train_test_split", "fit_predict", "y_preds",
      "plot_roc", "roc_auc_score", "refit", "load_test", "predict_test",
      "load_submission_format", "to_csv", "overwrite", "end">>

\* the code cells that change the state, in notebook order
Cells == <<"load_training", "assert_training_keys", "join", "counts",
           "counts_plot", "props", "vaccination_rate_plots", "numeric_cols",
           "build_pipeline", "train_test_split", "fit_predict", "y_preds",
           "plot_roc", "roc_auc_score", "refit", "load_test", "predict_test",
           "load_submission_format", "overwrite", "to_csv", "end">>

NextCell(c) == Cells[IndexOf(Cells, c) + 1]

FreshKernel ==
    /\ features_df = Undefined /\ labels_df = Undefined /\ joined_df = Undefined
    /\ numeric_cols = Undefined /\ full_pipeline = Undefined
    /\ X_train = Undefined /\ X_eval = Undefined
    /\ y_train = Undefined /\ y_eval = Undefined
    /\ preds = Undefined /\ y_preds = Undefined /\ auc = Undefined
    /\ test_features_df = Undefined /\ test_probas = Undefined
    /\ submission_df = Undefined
    /\ counts = Undefined /\ h1n1_concern_counts = Undefined
    /\ props = Undefined /\ ax = Undefined

ClearKernel ==
    /\ features_df' = Undefined /\ labels_df' = Undefined /\ joined_df' = Undefined
    /\ numeric_cols' = Undefined /\ full_pipeline' = Undefined
    /\ X_train' = Undefined /\ X_eval' = Undefined
    /\ y_train' = Undefined /\ y_eval' = Undefined
    /\ preds' = Undefined /\ y_preds' = Undefined /\ auc' = Undefined
    /\ test_features_df' = Undefined /\ test_probas' = Undefined
    /\ submission_df' = Undefined
    /\ counts' = Undefined /\ h1n1_concern_counts' = Undefined
    /\ props' = Undefined /\ ax' = Undefined

Init ==
    /\ (KeySweep \/ ValueSweep \/ MixedSweep \/ TestKeySweep \/ TestValueSweep)
    /\ writes = <<>>
    /\ run = 1
    /\ prev = Undefined
    /\ pc = "load_training"
    /\ status = "running"
    /\ FreshKernel
    /\ probe = Undefined

At(c) == status = "running" /\ pc = c

\* the cell ran to its end
Goto(c) == pc' = c /\ status' = IF c = "end" THEN "done" ELSE "running"

\* the cell raised: the run stops there
Raise == pc' = pc /\ status' = "aborted"

Frame == UNCHANGED <<fs, writes, run, prev, probe, eda>>

\* features_df = pd.read_csv(...); labels_df = pd.read_csv(...)
LoadTraining ==
    /\ At("load_training")
    /\ features_df' = read_csv(fs[TRAIN_FEATURES], "respondent_id")
    /\ labels_df' = read_csv(fs[TRAIN_LABELS], "respondent_id")
    /\ Goto(NextCell(pc))
    /\ UNCHANGED <<joined_df, numeric_cols, full_pipeline, X_train, X_eval,
                   y_train, y_eval, preds, y_preds, auc, test_features_df,
                   test_probas, submission_df>>
    /\ Frame

TrainingKeysSameSet == Range(features_df.index) = Range(labels_df.index)

TrainingKeysMatch == assert_array_equal(features_df.index, labels_df.index)


\* np.testing.assert_array_equal(features_df.index.values, labels_df.index.values)
AssertTrainingKeys ==
    /\ At("assert_training_keys")
    /\ IF TrainingKeysMatch THEN Goto(NextCell(pc)) ELSE Raise
    /\ UNCHANGED kernel
    /\ Frame

\* joined_df = features_df.join(labels_df)
Join ==
    /\ At("join")
    /\ joined_df' = join(features_df, labels_df)
    /\ Goto(NextCell(pc))
    /\ UNCHANGED <<features_df, labels_df, numeric_cols, full_pipeline, X_train,
                   X_eval, y_train, y_eval, preds, y_preds, auc,
                   test_features_df, test_probas, submission_df>>
    /\ Frame

\* counts = joined_df[['h1n1_concern', 'h1n1_vaccine']]
\*              .groupby(['h1n1_concern', 'h1n1_vaccine']).size().unstack('h1n1_vaccine')
Counts ==
    /\ At("counts")
    /\ counts' = size_unstack(joined_df, "h1n1_concern", "h1n1_vaccine")
    /\ Goto(NextCell(pc))
    /\ UNCHANGED <<h1n1_concern_counts, props, ax>>
    /\ UNCHANGED kernel
    /\ UNCHANGED <<fs, writes, run, prev, probe>>

\* ax = counts.plot.barh()
CountsPlot ==
    /\ At("counts_plot")
    /\ IF CanPlot(counts) THEN Goto(NextCell(pc)) ELSE Raise
    /\ UNCHANGED kernel
    /\ Frame

\* h1n1_concern_counts = counts.sum(axis='columns')
\* props = counts.div(h1n1_concern_counts, axis='index')
Props ==
    /\ At("props")
    /\ h1n1_concern_counts' = [values |-> sum_columns(counts)]
    /\ props' = div(counts, sum_columns(counts))
    /\ Goto(NextCell(pc))
    /\ UNCHANGED <<counts, ax>>
    /\ UNCHANGED kernel
    /\ UNCHANGED <<fs, writes, run, prev, probe>>

\* for idx, col in enumerate(cols_to_plot):
\*     vaccination_rate_plot(col, 'h1n1_vaccine', joined_df, ax=ax[idx, 0])
\*     vaccination_rate_plot(col, 'seasonal_vaccine', joined_df, ax=ax[idx, 1])
VaccinationRatePlots ==
    /\ At("vaccination_rate_plots")
    /\ LET drawn == [idx \in 1..Len(cols_to_plot) |->
                        [t \in 1..2 |->
                            vaccination_rate_plot(cols_to_plot[idx], Targets[t], joined_df)]]
       IN  IF \A idx \in 1..Len(cols_to_plot) : \A t \in 1..2 : drawn[idx][t].ok
           THEN /\ ax' = [idx \in 1..Len(cols_to_plot) |->
                             [t \in 1..2 |-> drawn[idx][t].bars]]
                /\ Goto(NextCell(pc))
           ELSE UNCHANGED ax /\ Raise
    /\ UNCHANGED <<counts, h1n1_concern_counts, props>>
    /\ UNCHANGED kernel
    /\ UNCHANGED <<fs, writes, run, prev, probe>>

\* numeric_cols = features_df.columns[features_df.dtypes != "object"].values
NumericColsOf(df) ==
    Take(df.columns, IndicesNot(df.dtypes, "object", 1))

NumericCols ==
    /\ At("numeric_cols")
    /\ numeric_cols' = [cols |-> NumericColsOf(features_df)]
    /\ Goto(NextCell(pc))
    /\ UNCHANGED <<features_df, labels_df, joined_df, full_pipeline, X_train,
                   X_eval, y_train, y_eval, preds, y_preds, auc,
                   test_features_df, test_probas, submission_df>>
    /\ Frame

\* preprocessor = ColumnTransformer(...); estimators = ...;
\* full_pipeline = Pipeline([...])
BuildPipeline ==
    /\ At("build_pipeline")
    /\ full_pipeline' = UnfittedPipeline(numeric_cols.cols)
    /\ Goto(NextCell(pc))
    /\ UNCHANGED <<features_df, labels_df, joined_df, numeric_cols, X_train,
                   X_eval, y_train, y_eval, preds, y_preds, auc,
                   test_features_df, test_probas, submission_df>>
    /\ Frame

\* X_train, X_eval, y_train, y_eval = train_test_split(features_df, labels_df,
\*     test_size=0.33, shuffle=True, stratify=labels_df, random_state=RANDOM_SEED)
TrainTestSplit ==
    /\ At("train_test_split")
    /\ \E entropy \in 0..MaxEntropy :
        LET sp == train_test_split(features_df, labels_df, RANDOM_SEED, entropy)
        IN  IF sp.ok
            THEN /\ X_train' = sp.X_train /\ X_eval' = sp.X_eval
                 /\ y_train' = sp.y_train /\ y_eval' = sp.y_eval
                 /\ Goto(NextCell(pc))
            ELSE /\ UNCHANGED <<X_train, X_eval, y_train, y_eval>>
                 /\ Raise
    /\ UNCHANGED <<features_df, labels_df, joined_df, numeric_cols,
                   full_pipeline, preds, y_preds, auc, test_features_df,
                   test_probas, submission_df>>
    /\ Frame

FitDataFull == [X |-> features_df, y |-> labels_df]

\* the data the evaluated model is fitted on
FitData == [X |-> X_train, y |-> y_train]

\* full_pipeline.fit(X_train, y_train); preds = full_pipeline.predict_proba(X_eval)
FitPredict ==
    /\ At("fit_predict")
    /\ LET fit == PipelineFit(full_pipeline, FitData.X, FitData.y)
       IN  IF ~fit.ok
           THEN UNCHANGED <<full_pipeline, preds>> /\ Raise
           ELSE LET p == PipelinePredictProba(fit.state, X_eval)
                IN  /\ full_pipeline' = fit.state
                    /\ IF p.ok
                       THEN preds' = [list |-> p.probas] /\ Goto(NextCell(pc))
                       ELSE UNCHANGED preds /\ Raise
    /\ UNCHANGED <<features_df, labels_df, joined_df, numeric_cols, X_train,
                   X_eval, y_train, y_eval, y_preds, auc, test_features_df,
                   test_probas, submission_df>>
    /\ Frame

\* pd.DataFrame({"h1n1_vaccine": a, "seasonal_vaccine": b}, index=index)
ProbaFrame(list, index) ==
    [index_name |-> "respondent_id",
     columns |-> Targets,
     dtypes |-> <<"float64", "float64">>,
     index |-> index,
     data |-> [r \in 1..Len(index) |->
                  <<SecondColumn(list[1])[r], SecondColumn(list[2])[r]>>]]

\* y_preds = pd.DataFrame({... preds[0][:, 1] ... preds[1][:, 1]}, index=y_eval.index)
MakeYPreds ==
    /\ At("y_preds")
    /\ y_preds' = ProbaFrame(preds.list, y_eval.index)
    /\ Goto(NextCell(pc))
    /\ UNCHANGED <<features_df, labels_df, joined_df, numeric_cols,
                   full_pipeline, X_train, X_eval, y_train, y_eval, preds, auc,
                   test_features_df, test_probas, submission_df>>
    /\ Frame

\* plot_roc(y_eval[t], y_preds[t], t, ax) for both targets
PlotRoc ==
    /\ At("plot_roc")
    /\ LET a == [t \in 1..2 |-> roc_auc_score(Column(y_eval, Targets[t]),
                                               Column(y_preds, Targets[t]))]
       IN  IF a[1].ok /\ a[2].ok
           THEN auc' = [titles |-> a] /\ Goto(NextCell(pc))
           ELSE UNCHANGED auc /\ Raise
    /\ UNCHANGED <<features_df, labels_df, joined_df, numeric_cols,
                   full_pipeline, X_train, X_eval, y_train, y_eval, preds,
                   y_preds, test_features_df, test_probas, submission_df>>
    /\ Frame

\* roc_auc_score(y_eval, y_preds)
RocAucScore ==
    /\ At("roc_auc_score")
    /\ LET a == roc_auc_score_multilabel(y_eval, y_preds)
       IN  IF a.ok
           THEN auc' = [titles |-> auc.titles, metric |-> a] /\ Goto(NextCell(pc))
           ELSE UNCHANGED auc /\ Raise
    /\ UNCHANGED <<features_df, labels_df, joined_df, numeric_cols,
                   full_pipeline, X_train, X_eval, y_train, y_eval, preds,
                   y_preds, test_features_df, test_probas, submission_df>>
    /\ Frame

RefitDataTrainSplit == [X |-> X_train, y |-> y_train]

\* the data the final model is fitted on
RefitData == [X |-> features_df, y |-> labels_df]

\* full_pipeline.fit(features_df, labels_df)
Refit ==
    /\ At("refit")
    /\ LET fit == PipelineFit(full_pipeline, RefitData.X, RefitData.y)
       IN  IF fit.ok
           THEN full_pipeline' = fit.state /\ Goto(NextCell(pc))
           ELSE UNCHANGED full_pipeline /\ Raise
    /\ UNCHANGED <<features_df, labels_df, joined_df, numeric_cols, X_train,
                   X_eval, y_train, y_eval, preds, y_preds, auc,
                   test_features_df, test_probas, submission_df>>
    /\ Frame

\* test_features_df = pd.read_csv(DATA_PATH / "test_set_features.csv", ...)
LoadTest ==
    /\ At("load_test")
    /\ test_features_df' = read_csv(fs[TEST_FEATURES], "respondent_id")
    /\ Goto(NextCell(pc))
    /\ UNCHANGED <<features_df, labels_df, joined_df, numeric_cols,
                   full_pipeline, X_train, X_eval, y_train, y_eval, preds,
                   y_preds, auc, test_probas, submission_df>>
    /\ Frame

\* test_probas = full_pipeline.predict_proba(test_features_df)
PredictTest ==
    /\ At("predict_test")
    /\ LET p == PipelinePredictProba(full_pipeline, test_features_df)
       IN  IF p.ok
           THEN test_probas' = [list |-> p.probas] /\ Goto(NextCell(pc))
           ELSE UNCHANGED test_probas /\ Raise
    /\ UNCHANGED <<features_df, labels_df, joined_df, numeric_cols,
                   full_pipeline, X_train, X_eval, y_train, y_eval, preds,
                   y_preds, auc, test_features_df, submission_df>>
    /\ Frame

\* submission_df = pd.read_csv(DATA_PATH / "submission_format.csv", ...)
LoadSubmissionFormat ==
    /\ At("load_submission_format")
    /\ submission_df' = read_csv(fs[SUBMISSION_FORMAT], "respondent_id")
    /\ Goto(NextCell(pc))
    /\ UNCHANGED <<features_df, labels_df, joined_df, numeric_cols,
                   full_pipeline, X_train, X_eval, y_train, y_eval, preds,
                   y_preds, auc, test_features_df, test_probas>>
    /\ Frame

TestKeysSameLength == Len(test_features_df.index) = Len(submission_df.index)

TestKeysSameSet == Range(test_features_df.index) = Range(submission_df.index)

TestKeysMatch == assert_array_equal(test_features_df.index, submission_df.index)

\* np.testing.assert_array_equal(test_features_df.index.values,
\*                               submission_df.index.values)
\* submission_df["h1n1_vaccine"] = test_probas[0][:, 1]
\* submission_df["seasonal_vaccine"] = test_probas[1][:, 1]
Overwrite ==
    /\ At("overwrite")
    /\ IF ~TestKeysMatch
       THEN UNCHANGED submission_df /\ Raise
       ELSE IF Len(test_probas.list[1]) # NRows(submission_df)
       THEN UNCHANGED submission_df /\ Raise
       ELSE /\ submission_df' =
                 SetColumn(SetColumn(submission_df, "h1n1_vaccine",
                                     SecondColumn(test_probas.list[1])),
                           "seasonal_vaccine", SecondColumn(test_probas.list[2]))
            /\ Goto(NextCell(pc))
    /\ UNCHANGED <<features_df, labels_df, joined_df, numeric_cols,
                   full_pipeline, X_train, X_eval, y_train, y_eval, preds,
                   y_preds, auc, test_features_df, test_probas>>
    /\ Frame

\* submission_df.to_csv(OUTPUT_DATA_PATH, index=True)
ToCsv ==
    /\ At("to_csv")
    /\ fs' = [fs EXCEPT ![OUTPUT_DATA_PATH] = to_csv(submission_df, TRUE)]
    /\ writes' = Append(writes, OUTPUT_DATA_PATH)
    /\ Goto(NextCell(pc))
    /\ UNCHANGED kernel
    /\ UNCHANGED <<run, prev, probe, eda>>

\* Restart & Run All: a new kernel runs the notebook again on the same
\* data directory
Restart ==
    /\ status \in {"done", "aborted"}
    /\ run < MaxRuns
    /\ run' = run + 1
    /\ prev' = [pc |-> pc, status |-> status,
                X_train |-> X_train, X_eval |-> X_eval,
                y_train |-> y_train, y_eval |-> y_eval,
                y_preds |-> y_preds, submission_df |-> submission_df]
    /\ writes' = <<>>
    /\ pc' = "load_training" /\ status' = "running"
    /\ ClearKernel
    /\ UNCHANGED <<fs, probe>>

Next ==
    \/ LoadTraining \/ AssertTrainingKeys \/ Join
    \/ Counts \/ CountsPlot \/ Props \/ VaccinationRatePlots \/ NumericCols
    \/ BuildPipeline \/ TrainTestSplit \/ FitPredict \/ MakeYPreds
    \/ PlotRoc \/ RocAucScore \/ Refit \/ LoadTest \/ PredictTest
    \/ LoadSubmissionFormat \/ Overwrite \/ ToCsv \/ Restart

Spec == Init /\ [][Next]_vars

----------------------------------------------------------------------------
(* roc_auc_score on its own: drawn label and score vectors *)

ProbeInputs ==
    UNION { { [y_true |-> y, y_score |-> sc, called |-> FALSE] :
                y \in [1..n -> {0, 1}], sc \in [1..n -> 0..MaxScore] } :
            n \in 1..MaxAucLen }

InitAuc ==
    /\ probe \in ProbeInputs
    /\ fs = Directory(FeaturesFile(<<>>, <<>>), LabelsFile(<<>>, <<>>),
                      FeaturesFile(<<>>, <<>>), TemplateFile(<<>>, TRUE))
    /\ writes = <<>> /\ run = 1 /\ prev = Undefined
    /\ pc = "end" /\ status = "done"
    /\ FreshKernel

\* roc_auc_score(y_true, y_score)
ProbeRocAuc ==
    /\ probe # Undefined
    /\ ~probe.called
    /\ probe' = [y_true |-> probe.y_true, y_score |-> probe.y_score,
                 called |-> TRUE,
                 result |-> roc_auc_score(probe.y_true, probe.y_score)]
    /\ UNCHANGED <<fs, writes, run, prev, pc, status, kernel, eda>>

NextAuc == ProbeRocAuc

SpecAuc == InitAuc /\ [][NextAuc]_vars

----------------------------------------------------------------------------
(* train_test_split on its own: drawn label tables *)

LabelPairs == << <<0, 0>>, <<0, 1>>, <<1, 0>>, <<1, 1>> >>

\* a feature table and a label table of n rows with the keys n..1
SplitInput(n, l) ==
    [X |-> read_csv(FeaturesFile([i \in 1..n |-> n + 1 - i], PlainAnswers(n)),
                    "respondent_id"),
     y |-> read_csv(LabelsFile([i \in 1..n |-> n + 1 - i],
                               [i \in 1..n |-> LabelPairs[l[i]]]),
                    "respondent_id"),
     called |-> FALSE]

InitSplit ==
    /\ \E n \in 0..MaxSplitRows :
          \E l \in [1..n -> 1..Len(LabelPairs)] : probe = SplitInput(n, l)
    /\ fs = Directory(FeaturesFile(<<>>, <<>>), LabelsFile(<<>>, <<>>),
                      FeaturesFile(<<>>, <<>>), TemplateFile(<<>>, TRUE))
    /\ writes = <<>> /\ run = 1 /\ prev = Undefined
    /\ pc = "end" /\ status = "done"
    /\ FreshKernel

\* train_test_split(X, y, test_size=0.33, shuffle=True, stratify=y,
\*                  random_state=RANDOM_SEED)
ProbeTrainTestSplit ==
    /\ probe # Undefined
    /\ ~probe.called
    /\ \E entropy \in 0..MaxEntropy :
          probe' = [X |-> probe.X, y |-> probe.y, called |-> TRUE,
                    result |-> train_test_split(probe.X, probe.y, RANDOM_SEED, entropy)]
    /\ UNCHANGED <<fs, writes, run, prev, pc, status, kernel, eda>>

NextSplit == ProbeTrainTestSplit

SpecSplit == InitSplit /\ [][NextSplit]_vars

----------------------------------------------------------------------------
(* vaccination_rate_plot on its own: called in a kernel that holds joined_df *)

\* features joined with labels, as the notebook builds joined_df
JoinedFrame(answers, labels) ==
    join(read_csv(FeaturesFile([i \in 1..Len(answers) |-> i], answers), "respondent_id"),
         read_csv(LabelsFile([i \in 1..Len(answers) |-> i], labels), "respondent_id"))

InitRate ==
    /\ \E n \in 0..MaxPlotRows : joined_df = JoinedFrame(PlainAnswers(n), PlainLabels(n))
    /\ \E n \in 0..MaxPlotRows :
          \E d \in Populations(n), idx \in 1..Len(cols_to_plot), t \in 1..2 :
              probe = [col |-> cols_to_plot[idx], target |-> Targets[t],
                       data |-> JoinedFrame([i \in 1..n |-> Respondents[d[i]][1]],
                                            [i \in 1..n |-> Respondents[d[i]][2]]),
                       called |-> FALSE]
    /\ fs = Directory(FeaturesFile(<<>>, <<>>), LabelsFile(<<>>, <<>>),
                      FeaturesFile(<<>>, <<>>), TemplateFile(<<>>, TRUE))
    /\ writes = <<>> /\ run = 1 /\ prev = Undefined
    /\ pc = "end" /\ status = "done"
    /\ features_df = Undefined /\ labels_df = Undefined
    /\ numeric_cols = Undefined /\ full_pipeline = Undefined
    /\ X_train = Undefined /\ X_eval = Undefined
    /\ y_train = Undefined /\ y_eval = Undefined
    /\ preds = Undefined /\ y_preds = Undefined /\ auc = Undefined
    /\ test_features_df = Undefined /\ test_probas = Undefined
    /\ submission_df = Undefined
    /\ counts = Undefined /\ h1n1_concern_counts = Undefined
    /\ props = Undefined /\ ax = Undefined

\* vaccination_rate_plot(col, target, data, ax)
ProbeVaccinationRatePlot ==
    /\ probe # Undefined
    /\ ~probe.called
    /\ probe' = [col |-> probe.col, target |-> probe.target, data |-> probe.data,
                 called |-> TRUE,
                 result |-> vaccination_rate_plot(probe.col, probe.target, probe.data)]
    /\ UNCHANGED <<fs, writes, run, prev, pc, status, kernel, eda>>

NextRate == ProbeVaccinationRatePlot

SpecRate == InitRate /\ [][NextRate]_vars

----------------------------------------------------------------------------
(* Properties *)

\* the key column of a CSV file, as written in the file
FileKeys(file) ==
    IF "respondent_id" \in Range(file.header)
    THEN [r \in 1..Len(file.rows) |-> file.rows[r][IndexOf(file.header, "respondent_id")]]
    ELSE <<>>

\* nothing after the training key assertion has run
NothingAfterTrainingAssert ==
    /\ joined_df = Undefined /\ numeric_cols = Undefined
    /\ full_pipeline = Undefined
    /\ X_train = Undefined /\ X_eval = Undefined
    /\ y_train = Undefined /\ y_eval = Undefined
    /\ preds = Undefined /\ y_preds = Undefined /\ auc = Undefined
    /\ test_features_df = Undefined /\ test_probas = Undefined
    /\ submission_df = Undefined
    /\ counts = Undefined /\ h1n1_concern_counts = Undefined
    /\ props = Undefined /\ ax = Undefined
    /\ writes = <<>>

TrainingKeysDiffer == FileKeys(fs[TRAIN_FEATURES]) # FileKeys(fs[TRAIN_LABELS])

\* C1: when the key column of the training features differs from that of the
\* training labels (in a value, in order or in length), the run stops at the
\* key assertion and no later cell has any effect; the run is past the
\* assertion only when the two key columns are the same sequence.
C1_TrainingKeyCheck ==
    /\ [](TrainingKeysDiffer =>
            /\ pc \in {"load_training", "assert_training_keys"}
            /\ NothingAfterTrainingAssert)
    /\ [](pc \notin {"load_training", "assert_training_keys"} =>
            features_df.index = labels_df.index)
    /\ [][(At("assert_training_keys") /\ TrainingKeysDiffer /\ run' = run) =>
            (status' = "aborted" /\ pc' = pc)]_vars

\* a run stopped by the assertion on two key columns that hold the same keys
\* in a different order
C1_Witness ==
    /\ status = "aborted" /\ pc = "assert_training_keys"
    /\ TrainingKeysDiffer
    /\ Len(features_df.index) = Len(labels_df.index)
    /\ Range(features_df.index) = Range(labels_df.index)

TestKeysDiffer == FileKeys(fs[TEST_FEATURES]) # FileKeys(fs[SUBMISSION_FORMAT])

\* C2: when the key column of the test features differs from that of the
\* submission template, the run stops at the assertion with both probability
\* columns of submission_df as loaded from the template, and no run writes
\* the output file.
C2_TestKeyCheck ==
    /\ [](TestKeysDiffer =>
            /\ pc # "to_csv" /\ pc # "end"
            /\ writes = <<>>
            /\ fs[OUTPUT_DATA_PATH] = NoFile
            /\ submission_df \in {Undefined, read_csv(fs[SUBMISSION_FORMAT], "respondent_id")})
    /\ [][(At("overwrite") /\ TestKeysDiffer /\ run' = run) =>
            (status' = "aborted" /\ submission_df' = submission_df)]_vars

\* a run stopped at the overwrite cell on two key columns that hold the same
\* keys in a different order
C2_Witness ==
    /\ status = "aborted" /\ pc = "overwrite"
    /\ TestKeysDiffer
    /\ Len(test_features_df.index) = Len(submission_df.index)
    /\ Range(test_features_df.index) = Range(submission_df.index)
    /\ test_probas # Undefined

\* C3: in a run that has written the submission file, the set of keys of the
\* written table is the set of keys of the test feature table.
C3_SubmissionKeySet ==
    (writes # <<>>) =>
        /\ Range(FileKeys(fs[OUTPUT_DATA_PATH])) = Range(test_features_df.index)
        /\ Range(FileKeys(fs[OUTPUT_DATA_PATH])) = Range(FileKeys(fs[TEST_FEATURES]))

\* a written submission with more than one key
C3_Witness ==
    /\ writes # <<>>
    /\ Cardinality(Range(FileKeys(fs[OUTPUT_DATA_PATH]))) >= 2

IsProbability(p) == 0 <= p /\ p <= ONE

\* C4: every probability produced lies in [0, 1]: every entry of both arrays
\* of preds and of test_probas, every entry of y_preds, and every entry of the
\* two probability columns of submission_df once overwritten and of the file
\* written from it.
C4_ProbabilitiesInUnitInterval ==
    /\ preds # Undefined =>
          \A t \in 1..2 : \A r \in 1..Len(preds.list[t]) : \A c \in 1..2 :
              IsProbability(preds.list[t][r][c])
    /\ y_preds # Undefined =>
          \A r \in 1..NRows(y_preds) : \A c \in 1..2 : IsProbability(y_preds.data[r][c])
    /\ test_probas # Undefined =>
          \A t \in 1..2 : \A r \in 1..Len(test_probas.list[t]) : \A c \in 1..2 :
              IsProbability(test_probas.list[t][r][c])
    /\ pc \in {"to_csv", "end"} =>
          \A r \in 1..NRows(submission_df) : \A c \in 1..2 :
              IsProbability(submission_df.data[r][c])
    /\ writes # <<>> =>
          \A r \in 1..Len(fs[OUTPUT_DATA_PATH].rows) : \A c \in 2..3 :
              IsProbability(fs[OUTPUT_DATA_PATH].rows[r][c])

\* a finished run whose predictions differ between rows, with a missing
\* answer among the test rows
C4_Witness ==
    /\ status = "done"
    /\ \E r \in 1..NRows(test_features_df) : test_features_df.data[r][1] = NaN
    /\ \E r1, r2 \in 1..NRows(submission_df) :
          submission_df.data[r1][1] # submission_df.data[r2][1]
    /\ \E r1, r2 \in 1..NRows(y_preds) : y_preds.data[r1][2] # y_preds.data[r2][2]

\* C5: the written file has the header of the template (the key column, then
\* the template's columns in the template's order), the template's keys in
\* the template's order, and differs from the template only in the values
\* of h1n1_vaccine and seasonal_vaccine.
C5_OutputSchema ==
    (writes # <<>>) =>
        LET out == fs[OUTPUT_DATA_PATH]
            tpl == fs[SUBMISSION_FORMAT]
        IN  /\ out.header = tpl.header
            /\ out.header[1] = "respondent_id"
            /\ Len(out.rows) = Len(tpl.rows)
            /\ \A r \in 1..Len(out.rows) :
                  /\ Len(out.rows[r]) = Len(tpl.rows[r])
                  /\ \A c \in 1..Len(out.header) :
                        out.header[c] \notin Range(Targets) =>
                            out.rows[r][c] = tpl.rows[r][c]

\* a file written from a template that lists seasonal_vaccine first and whose
\* keys are not 1..n
C5_Witness ==
    /\ writes # <<>>
    /\ fs[SUBMISSION_FORMAT].header[2] = "seasonal_vaccine"
    /\ Len(fs[OUTPUT_DATA_PATH].rows) >= 2
    /\ fs[OUTPUT_DATA_PATH].rows[1][1] # 1

\* the final model's state and the predictions made with it
FullFit == PipelineFit(UnfittedPipeline(NumericColsOf(features_df)), features_df, labels_df)

\* C6: a run writes the submission file once and as its last step: nothing
\* is written before the to_csv cell, which runs after the refit on the full
\* training data, after predict_proba on the test features and after both
\* probability columns have been overwritten; only that cell changes the
\* data directory.
C6_WrittenOnceAtTheEnd ==
    /\ [](Len(writes) <= 1)
    /\ [](writes # <<>> =>
            /\ writes = <<OUTPUT_DATA_PATH>>
            /\ status = "done" /\ pc = "end"
            /\ full_pipeline = FullFit.state
            /\ test_probas # Undefined
            /\ Column(submission_df, "h1n1_vaccine") = SecondColumn(test_probas.list[1])
            /\ Column(submission_df, "seasonal_vaccine") = SecondColumn(test_probas.list[2])
            /\ fs[OUTPUT_DATA_PATH] = to_csv(submission_df, TRUE))
    /\ [](status = "done" => writes = <<OUTPUT_DATA_PATH>>)
    /\ [][fs' # fs => (pc = "to_csv" /\ pc' = "end" /\ writes = <<>>)]_vars

\* a finished run whose written predictions differ from the template's values
C6_Witness ==
    /\ status = "done" /\ writes = <<OUTPUT_DATA_PATH>>
    /\ fs[OUTPUT_DATA_PATH].rows # fs[SUBMISSION_FORMAT].rows

\* C7: a second run of the notebook on the same data directory stops at the
\* same cell in the same way and leaves the same split, the same evaluation
\* predictions and the same submission table as the first.
C7_Determinism ==
    (run >= 2 /\ status \in {"done", "aborted"}) =>
        /\ pc = prev.pc /\ status = prev.status
        /\ X_train = prev.X_train /\ X_eval = prev.X_eval
        /\ y_train = prev.y_train /\ y_eval = prev.y_eval
        /\ y_preds = prev.y_preds
        /\ submission_df = prev.submission_df
        /\ (status = "done" => fs[OUTPUT_DATA_PATH] = to_csv(prev.submission_df, TRUE))

\* a second run that finished, on a split that a different generator state
\* would have drawn differently
C7_Witness ==
    /\ run = 2 /\ status = "done"
    /\ y_preds # Undefined
    /\ \E e \in 0..MaxEntropy :
          StratifiedShuffleSplit(labels_df, RngNext(e)).train
              # StratifiedShuffleSplit(labels_df, RngNext(RANDOM_SEED)).train

\* C8: once loaded, the training features, the training labels and the test
\* features keep the content of their files for the rest of the run, and no
\* step writes to an input file.
C8_InputsImmutable ==
    /\ [](features_df # Undefined =>
            features_df = read_csv(fs[TRAIN_FEATURES], "respondent_id"))
    /\ [](labels_df # Undefined =>
            labels_df = read_csv(fs[TRAIN_LABELS], "respondent_id"))
    /\ [](test_features_df # Undefined =>
            test_features_df = read_csv(fs[TEST_FEATURES], "respondent_id"))
    /\ [][\A f \in InputFiles : fs'[f] = fs[f]]_vars
    /\ [](\A i \in 1..Len(writes) : writes[i] \notin InputFiles)

\* a finished run: every step has acted on the loaded tables, the scaler has
\* rescaled the answers and the imputer has filled a missing one
C8_Witness ==
    /\ status = "done"
    /\ \E r \in 1..NRows(features_df) : features_df.data[r][1] = NaN
    /\ \E r \in 1..NRows(test_features_df) : test_features_df.data[r][1] = NaN
    /\ full_pipeline.stats[1].mean # 0

\* C9: the test predictions are made by the model refit on the full training
\* data: whenever test_probas exists, the pipeline's fitted state is the one
\* a fit of the full training tables alone gives, and test_probas is what
\* that state predicts for the test features.
C9_TestPredictionsFromFullRefit ==
    (\/ pc \in {"load_test", "predict_test", "load_submission_format",
                "overwrite", "to_csv", "end"}
     \/ test_probas # Undefined) =>
        \A fit \in {FullFit} :
            /\ fit.ok
            /\ full_pipeline = fit.state
            /\ test_probas # Undefined =>
                  test_probas.list = PipelinePredictProba(fit.state, test_features_df).probas

\* test predictions exist and the fit on the train split had given other
\* scaler statistics and other coefficients than the refit
C9_Witness ==
    /\ test_probas # Undefined
    /\ LET first == PipelineFit(UnfittedPipeline(numeric_cols.cols), X_train, y_train)
       IN  /\ first.ok
           /\ first.state.stats # full_pipeline.stats
           /\ first.state.estimators # full_pipeline.estimators
           /\ PipelinePredictProba(first.state, test_features_df).probas # test_probas.list

\* all score vectors as long as y
ScoreVectors(y) == [1..Len(y) -> 0..MaxScore]

\* every positive is scored strictly above every negative
RanksPerfectly(y, sc) ==
    \A i, j \in 1..Len(y) : (y[i] = 1 /\ y[j] = 0) => sc[i] > sc[j]

\* the sum of the numerators of roc_auc_score(y, sc) over the score vectors
\* sc that begin with prefix followed by a score of v or more
RECURSIVE SumOfAucNum(_, _, _)
SumOfAucNum(y, prefix, v) ==
    IF Len(prefix) = Len(y) THEN roc_auc_score(y, prefix).num
    ELSE IF v > MaxScore THEN 0
    ELSE SumOfAucNum(y, Append(prefix, v), 0) + SumOfAucNum(y, prefix, v + 1)

\* C10: for a label vector with both classes, roc_auc_score is exactly 1 on
\* any score vector that ranks every positive strictly above every negative,
\* and its mean over all score vectors (a score drawn uniformly at random
\* for every row) is exactly 1/2 (evaluated once per label vector, in the
\* state of the all-zero score vector).
C10_RocAucSanity ==
    (probe # Undefined /\ probe.called /\ Cardinality(Range(probe.y_true)) = 2) =>
        /\ probe.result.ok
        /\ RanksPerfectly(probe.y_true, probe.y_score) =>
              probe.result.num = probe.result.den
        /\ (\A i \in 1..Len(probe.y_score) : probe.y_score[i] = 0) =>
              2 * SumOfAucNum(probe.y_true, <<>>, 0)
                  = Cardinality(ScoreVectors(probe.y_true)) * probe.result.den

\* roc_auc_score has been applied to a perfect ranking with tied scores
\* among the positives
C10_Witness ==
    /\ probe # Undefined /\ probe.called
    /\ Cardinality(Range(probe.y_true)) = 2
    /\ RanksPerfectly(probe.y_true, probe.y_score)
    /\ \E i, j \in 1..Len(probe.y_true) :
          /\ i # j /\ probe.y_true[i] = 1 /\ probe.y_true[j] = 1
          /\ probe.y_score[i] = probe.y_score[j]
    /\ probe.result.ok

\* C11: the reported metric roc_auc_score(y_eval, y_preds) is the arithmetic
\* mean of the two per-target ROC-AUC values, each the area for one target on
\* the evaluation rows: 2 * metric = auc(h1n1_vaccine) + auc(seasonal_vaccine).
C11_MetricIsMeanOfTargets ==
    (auc # Undefined /\ "metric" \in DOMAIN auc) =>
        LET a == auc.titles
            m == auc.metric
        IN  /\ \A t \in 1..2 :
                  a[t] = roc_auc_score(Column(y_eval, Targets[t]), Column(y_preds, Targets[t]))
            /\ 2 * m.num * a[1].den * a[2].den
                  = m.den * (a[1].num * a[2].den + a[2].num * a[1].den)

\* the metric has been reported for two targets whose ROC-AUC values differ
C11_Witness ==
    /\ auc # Undefined /\ "metric" \in DOMAIN auc
    /\ auc.titles[1].num * auc.titles[2].den # auc.titles[2].num * auc.titles[1].den

\* m is a median of the observed values of vals: at least half of them are
\* at most m and at least half are at least m
IsMedianOf(m, vals) ==
    LET obs == {i \in 1..Len(vals) : vals[i] # NaN}
    IN  IF obs = {} THEN m = NaN
        ELSE /\ m # NaN
             /\ 2 * Cardinality({i \in obs : vals[i] <= m}) >= Cardinality(obs)
             /\ 2 * Cardinality({i \in obs : vals[i] >= m}) >= Cardinality(obs)

\* the row r of X as the estimators must see it: an observed answer scaled,
\* a missing one replaced by the fitted median
ImputedRow(pipeline, X, r) ==
    LET kept == KeptFeatures(pipeline.stats)
    IN  [k \in 1..Len(kept) |->
            LET raw == Column(X, pipeline.cols[kept[k]])[r]
            IN  IF raw = NaN THEN pipeline.stats[kept[k]].median
                ELSE ScalerTransform(pipeline.stats[kept[k]], raw)]

\* the fitted medians are medians of the scaled columns of fitX, and probas
\* are the predictions for the rows of X with those medians filled in
UsesFitMedian(pipeline, fitX, X, probas) ==
    /\ \A j \in 1..Len(pipeline.cols) :
          LET col == Column(fitX, pipeline.cols[j])
          IN  IsMedianOf(pipeline.stats[j].median,
                         [i \in 1..Len(col) |-> ScalerTransform(pipeline.stats[j], col[i])])
    /\ \A t \in 1..2 : \A r \in 1..NRows(X) :
          probas[t][r] = LogisticRegressionPredictProba(pipeline.estimators[t],
                                                        <<ImputedRow(pipeline, X, r)>>)[1]

\* C12: a missing value in a numeric column of an evaluation row or of a
\* test row is replaced by the median of the observed, scaled values of that
\* column in the data the pipeline was last fit on: the train split for the
\* evaluation predictions, the full training table for the test predictions.
C12_MedianFromFitData ==
    /\ (preds # Undefined /\ pc \in {"y_preds", "plot_roc", "roc_auc_score", "refit"}) =>
          UsesFitMedian(full_pipeline, X_train, X_eval, preds.list)
    /\ test_probas # Undefined =>
          UsesFitMedian(full_pipeline, features_df, test_features_df, test_probas.list)

\* the median of the scaled column col of X under the fitted scaler
OwnMedian(pipeline, X, col) ==
    Median([i \in 1..NRows(X) |->
               ScalerTransform(pipeline.stats[1], Column(X, col)[i])])

\* evaluation predictions for a row with a missing answer, where the rows
\* being transformed have another median than the train split
C12_Witness ==
    /\ preds # Undefined /\ pc = "roc_auc_score"
    /\ \E r \in 1..NRows(X_eval) : X_eval.data[r][1] = NaN
    /\ OwnMedian(full_pipeline, X_eval, "h1n1_concern") # NaN
    /\ OwnMedian(full_pipeline, X_eval, "h1n1_concern") # full_pipeline.stats[1].median

\* probas is a list of two (n, 2) arrays, one per estimator; an estimator's
\* classes_ are <<0, 1>>, so the columns of its array are the probabilities
\* of class 0 and of class 1, which add up to 1
IsProbaList(pipeline, probas, n) ==
    /\ Len(probas) = 2 /\ Len(pipeline.estimators) = 2
    /\ \A t \in 1..2 :
          /\ pipeline.estimators[t].classes = <<0, 1>>
          /\ Len(probas[t]) = n
          /\ \A r \in 1..n :
                /\ Len(probas[t][r]) = 2
                /\ probas[t][r][1] + probas[t][r][2] = ONE

\* the probability of class 1 that estimator t gives row r of X
ProbaOfClassOne(pipeline, X, t, r) ==
    Expit(Decision(pipeline.estimators[t], ImputedRow(pipeline, X, r)))

\* C13: predict_proba returns two (n_obs, 2) arrays, the first of the
\* estimator fitted on h1n1_vaccine and the second of the one fitted on
\* seasonal_vaccine, with the probability of class 0 in the first column and
\* of class 1 in the second; the two columns of y_preds and of the
\* overwritten submission table hold the probability of class 1 of their
\* target.
C13_SecondColumnIsClassOne ==
    /\ (preds # Undefined /\ pc \in {"y_preds", "plot_roc", "roc_auc_score", "refit"}) =>
          /\ IsProbaList(full_pipeline, preds.list, NRows(X_eval))
          /\ \A Z \in {PreprocessorTransform(full_pipeline.stats, full_pipeline.cols, X_train)} :
                \A t \in 1..2 :
                    full_pipeline.estimators[t]
                        = LogisticRegressionFit(Z, Column(y_train, Targets[t]))
          /\ \A t \in 1..2 : \A r \in 1..NRows(X_eval) :
                preds.list[t][r][2] = ProbaOfClassOne(full_pipeline, X_eval, t, r)
    /\ (y_preds # Undefined /\ pc \in {"plot_roc", "roc_auc_score", "refit"}) =>
          /\ y_preds.columns = Targets
          /\ \A t \in 1..2 : \A r \in 1..NRows(X_eval) :
                Column(y_preds, Targets[t])[r] = ProbaOfClassOne(full_pipeline, X_eval, t, r)
    /\ test_probas # Undefined =>
          /\ IsProbaList(full_pipeline, test_probas.list, NRows(test_features_df))
          /\ \A t \in 1..2 : \A r \in 1..NRows(test_features_df) :
                test_probas.list[t][r][2] = ProbaOfClassOne(full_pipeline, test_features_df, t, r)
    /\ pc \in {"to_csv", "end"} =>
          \A t \in 1..2 : \A r \in 1..NRows(test_features_df) :
              Column(submission_df, Targets[t])[r]
                  = ProbaOfClassOne(full_pipeline, test_features_df, t, r)

\* a finished run in which, for some evaluation row and some test row, the
\* two targets have different probabilities and class 1 is not as likely as
\* class 0
C13_Witness ==
    /\ status = "done"
    /\ \E r \in 1..NRows(y_preds) :
          /\ y_preds.data[r][1] # y_preds.data[r][2]
          /\ 2 * y_preds.data[r][1] # ONE
    /\ \E r \in 1..NRows(submission_df) :
          /\ Column(submission_df, "h1n1_vaccine")[r] # Column(submission_df, "seasonal_vaccine")[r]
          /\ 2 * Column(submission_df, "h1n1_vaccine")[r] # ONE

\* the number of rows of the label table y that hold the label pair c
CountOf(y, c) == Cardinality({r \in 1..NRows(y) : y.data[r] = c})

\* the rows of part, in order, are rows of whole: same key, same content
RowsOf(part, whole) ==
    \A i \in 1..NRows(part) :
        \E r \in 1..NRows(whole) :
            whole.index[r] = part.index[i] /\ whole.data[r] = part.data[i]

\* part holds its proportional share of every label pair of whole, as
\* nearly as whole rows allow: less than one row away from it
KeepsProportions(part, whole) ==
    \A c \in Range(LabelPairs) :
        Abs(CountOf(part, c) * NRows(whole) - CountOf(whole, c) * NRows(part)) < NRows(whole)

\* C14: a split that succeeds partitions the rows (the key sets of the two
\* parts are disjoint and together are the key set of the table), the
\* evaluation part holds 0.33 of the rows rounded up, the feature part and
\* the label part of each side carry the same keys in the same order and
\* their own rows, and every combination of the two labels keeps its
\* proportion in both parts, as nearly as whole rows allow.
C14_SplitPartitionsAndStratifies ==
    (probe # Undefined /\ probe.called /\ probe.result.ok) =>
        LET res == probe.result
            n == NRows(probe.X)
        IN  /\ Range(res.X_train.index) \cap Range(res.X_eval.index) = {}
            /\ Range(res.X_train.index) \cup Range(res.X_eval.index) = Range(probe.X.index)
            /\ NRows(res.X_train) + NRows(res.X_eval) = n
            /\ 100 * NRows(res.X_eval) >= 33 * n
            /\ 100 * (NRows(res.X_eval) - 1) < 33 * n
            /\ res.y_train.index = res.X_train.index
            /\ res.y_eval.index = res.X_eval.index
            /\ RowsOf(res.X_train, probe.X) /\ RowsOf(res.X_eval, probe.X)
            /\ RowsOf(res.y_train, probe.y) /\ RowsOf(res.y_eval, probe.y)
            /\ KeepsProportions(res.y_train, probe.y)
            /\ KeepsProportions(res.y_eval, probe.y)

\* a split of a table with three label pairs of different frequencies, whose
\* shares of the evaluation part are not whole numbers of rows
C14_Witness ==
    /\ probe # Undefined /\ probe.called /\ probe.result.ok
    /\ Cardinality(Range(probe.y.data)) = 3
    /\ \E c, d \in Range(probe.y.data) : CountOf(probe.y, c) # CountOf(probe.y, d)
    /\ \E c \in Range(probe.y.data) :
          (CountOf(probe.y, c) * NRows(probe.result.y_eval)) % NRows(probe.y) # 0

\* the sum of the quotients of a row; a NaN cell (no observations) adds nothing
RECURSIVE AddQuotients(_, _)
AddQuotients(row, sum) ==
    IF row = <<>> THEN sum
    ELSE IF Head(row) = NaNQuotient THEN AddQuotients(Tail(row), sum)
    ELSE AddQuotients(Tail(row),
                      Quotient(sum.num * Head(row).den + Head(row).num * sum.den,
                               sum.den * Head(row).den))

SumsToOne(row) ==
    \A sum \in {AddQuotients(row, Quotient(0, 1))} : sum.den > 0 /\ sum.num = sum.den

\* the levels of a column of joined_df: its distinct observed values
LevelsOf(col) ==
    {joined_df.data[r][ColumnIndex(joined_df, col)] :
        r \in {q \in 1..NRows(joined_df) : ~IsNa(joined_df, q, ColumnIndex(joined_df, col))}}

\* C15: in props and in every chart drawn by vaccination_rate_plot there is
\* one row per level of the feature column, and the proportions of a level
\* over the values of the target add up to 1, also when a value of the target
\* has no observations at that level (its cell is NaN, its bar has length 0).
C15_RatesSumToOne ==
    /\ props # Undefined =>
          /\ Range(props.index) = LevelsOf("h1n1_concern")
          /\ \A i \in 1..Len(props.index) : SumsToOne(props.data[i])
    /\ ax # Undefined =>
          \A idx \in 1..Len(cols_to_plot) :
              \A levels \in {LevelsOf(cols_to_plot[idx])} : \A t \in 1..2 :
                  \A bars \in {ax[idx][t]} :
                      /\ Range(bars.index) = levels
                      /\ \A i \in 1..Len(bars.index) :
                            /\ SumsToOne(bars.data[i])
                            /\ \A k \in 1..Len(bars.columns) : bars.data[i][k] # NaNQuotient

\* charts drawn for a feature with two levels: at one of them a target value
\* has no observations, at the other both values are observed
C15_Witness ==
    /\ ax # Undefined /\ props # Undefined
    /\ Len(props.index) = 2 /\ Len(props.columns) = 2
    /\ \E i \in 1..2 : \E k \in 1..2 : props.data[i][k] = NaNQuotient
    /\ \E i \in 1..2 : \A k \in 1..2 :
          props.data[i][k] # NaNQuotient /\ props.data[i][k].num < props.data[i][k].den

\* C16: vaccination_rate_plot(col, target, data, ax) draws the vaccination
\* rates of the dataframe passed as `data`: the bars are those of the counts
\* of data[[target, col]], whatever else the kernel holds.
C16_PlotsRatesOfData ==
    (probe # Undefined /\ probe.called) =>
        probe.result = RatePlot(size_unstack(probe.data, probe.col, probe.target))

\* df with other values in its non-numeric columns: every text value
\* replaced by `text`, or the two text values exchanged
WithText(df, text) ==
    [df EXCEPT !.data =
        [r \in 1..NRows(df) |->
            [c \in 1..Len(df.columns) |->
                IF df.dtypes[c] # "object" THEN df.data[r][c]
                ELSE IF text # "exchanged" THEN text
                ELSE IF df.data[r][c] = "Female" THEN "Male" ELSE "Female"]]]

TextChanges == {"Female", "Male", "exchanged"}

\* y_preds is what a run on the training tables (features, labels) predicts
\* for its evaluation rows
SameEvalPredictions(features, labels) ==
    \A sp \in {train_test_split(features, labels, RANDOM_SEED, 0)} :
        \A fit \in {PipelineFit(UnfittedPipeline(NumericColsOf(features)),
                                 sp.X_train, sp.y_train)} :
            \A p \in {PipelinePredictProba(fit.state, sp.X_eval)} :
                y_preds = ProbaFrame(p.probas, sp.y_eval.index)

\* submission_df is the table a run on (features, labels) and a test table
\* with other text values ends with
SameSubmission(features, labels) ==
    \A fit \in {PipelineFit(UnfittedPipeline(NumericColsOf(features)), features, labels)} :
        \A test_text \in TextChanges :
            \A p \in {PipelinePredictProba(fit.state, WithText(test_features_df, test_text))} :
                submission_df
                    = SetColumn(SetColumn(read_csv(fs[SUBMISSION_FORMAT], "respondent_id"),
                                          "h1n1_vaccine", SecondColumn(p.probas[1])),
                                "seasonal_vaccine", SecondColumn(p.probas[2]))

\* C17: numeric_cols is exactly the columns of the training feature table
\* whose dtype is not object, and a run on feature tables that differ from
\* this run's only in the values of the non-numeric columns ends with the
\* same evaluation predictions and the same submission table.
C17_OnlyNumericColumns ==
    /\ numeric_cols # Undefined =>
          /\ \A c \in 1..Len(features_df.columns) :
                (features_df.columns[c] \in Range(numeric_cols.cols))
                    <=> (features_df.dtypes[c] # "object")
          /\ Range(numeric_cols.cols) \subseteq Range(features_df.columns)
    /\ (status \in {"done", "aborted"} /\ y_preds # Undefined) =>
          \A text \in TextChanges :
              SameEvalPredictions(WithText(features_df, text), labels_df)
    /\ status = "done" =>
          \A text \in TextChanges :
              SameSubmission(WithText(features_df, text), labels_df)

\* a finished run on training and test tables that hold both text values,
\* whose predictions differ between rows
C17_Witness ==
    /\ status = "done"
    /\ Range(Column(features_df, "sex")) = {"Female", "Male"}
    /\ Range(Column(test_features_df, "sex")) = {"Female", "Male"}
    /\ \E r1, r2 \in 1..NRows(y_preds) : y_preds.data[r1] # y_preds.data[r2]
    /\ \E r1, r2 \in 1..NRows(submission_df) : submission_df.data[r1] # submission_df.data[r2]

\* the rows of the two parts are the rows of whole, each as often as there
IsSplitOf(part1, part2, whole) ==
    /\ NRows(part1) + NRows(part2) = NRows(whole)
    /\ \A r \in 1..NRows(whole) :
          Cardinality({i \in 1..NRows(part1) :
                          part1.index[i] = whole.index[r] /\ part1.data[i] = whole.data[r]})
          + Cardinality({i \in 1..NRows(part2) :
                            part2.index[i] = whole.index[r] /\ part2.data[i] = whole.data[r]})
              = Cardinality({q \in 1..NRows(whole) :
                                whole.index[q] = whole.index[r] /\ whole.data[q] = whole.data[r]})

\* the pipeline's state is the fit of the train split alone, and the
\* evaluation predictions and the reported metric come from that state
EvaluatedOnTrainFit ==
    \A fit \in {PipelineFit(UnfittedPipeline(numeric_cols.cols), X_train, y_train)} :
        /\ fit.ok
        /\ full_pipeline = fit.state
        /\ \A p \in {PipelinePredictProba(fit.state, X_eval)} :
              /\ preds.list = p.probas
              /\ y_preds # Undefined => y_preds = ProbaFrame(p.probas, y_eval.index)
              /\ (auc # Undefined /\ "metric" \in DOMAIN auc) =>
                    auc.metric = roc_auc_score_multilabel(y_eval, ProbaFrame(p.probas, y_eval.index))

\* C18: from predict_proba(X_eval) until the refit, the pipeline's fitted
\* state (scaler statistics, medians, coefficients) is the fit of the train
\* split alone, whose rows are the training rows that are not evaluation
\* rows; the evaluation predictions and the reported ROC-AUC come from that
\* state; within a run the pipeline is fitted at fit(X_train, y_train) and
\* again only at the refit cell, after the ROC-AUC has been computed.
C18_NoEvaluationLeakage ==
    /\ []((preds # Undefined /\ pc \in {"y_preds", "plot_roc", "roc_auc_score", "refit"}) =>
            /\ EvaluatedOnTrainFit
            /\ IsSplitOf(X_train, X_eval, features_df)
            /\ IsSplitOf(y_train, y_eval, labels_df))
    /\ [][(run' = run /\ full_pipeline' # full_pipeline /\ full_pipeline # Undefined) =>
            \/ /\ pc = "fit_predict" /\ ~full_pipeline.fitted
               /\ auc = Undefined
            \/ /\ pc = "refit" /\ pc' = "load_test"
               /\ auc # Undefined /\ "metric" \in DOMAIN auc
               /\ auc' = auc /\ preds' = preds /\ y_preds' = y_preds]_vars

\* the ROC-AUC has been reported by a pipeline whose state differs from the
\* one a fit on all training rows gives
C18_Witness ==
    /\ pc = "refit" /\ status = "running"
    /\ auc # Undefined /\ "metric" \in DOMAIN auc
    /\ FullFit.ok
    /\ FullFit.state.stats # full_pipeline.stats
    /\ FullFit.state.estimators # full_pipeline.estimators

\* joined_df has the rows of features_df, in order, each with the labels of
\* the row of labels_df at the same position
JoinPreservesRows ==
    /\ NRows(joined_df) = NRows(features_df)
    /\ joined_df.index = features_df.index
    /\ \A r \in 1..NRows(joined_df) :
          joined_df.data[r] = features_df.data[r] \o labels_df.data[r]

\* the number of times key occurs in the index of df
KeyCount(df, key) == Cardinality({r \in 1..NRows(df) : df.index[r] = key})

UniqueKeys(df) == \A r \in 1..NRows(df) : KeyCount(df, df.index[r]) = 1

\* C19 as stated: once the key assertion has passed, joined_df has exactly
\* one row per row of the feature table, in the same key order, each with
\* the labels of its respondent, also when a key value occurs more than once.
C19_JoinPreservesRowsAlways ==
    joined_df # Undefined => JoinPreservesRows

\* C19, amended: once the key assertion has passed and no key value occurs
\* more than once, joined_df has exactly one row per row of the feature
\* table, in the same key order, each with the labels of the respondent with
\* the same key; a key that occurs k times gives k * k rows, every feature
\* row of that key paired with every label row of that key.
C19_JoinPreservesRowsOfUniqueKeys ==
    joined_df # Undefined =>
        /\ joined_df.columns = features_df.columns \o labels_df.columns
        /\ UniqueKeys(features_df) => JoinPreservesRows
        /\ \A r \in 1..NRows(features_df) :
              KeyCount(joined_df, features_df.index[r])
                  = KeyCount(features_df, features_df.index[r])
                        * KeyCount(labels_df, features_df.index[r])
        /\ \A r \in 1..NRows(joined_df) :
              /\ \E i \in 1..NRows(features_df) :
                    /\ features_df.index[i] = joined_df.index[r]
                    /\ features_df.data[i]
                          = SubSeq(joined_df.data[r], 1, Len(features_df.columns))
              /\ \E j \in 1..NRows(labels_df) :
                    /\ labels_df.index[j] = joined_df.index[r]
                    /\ labels_df.data[j]
                          = SubSeq(joined_df.data[r], Len(features_df.columns) + 1,
                                   Len(joined_df.columns))

\* a join of tables whose unique keys are not in ascending order and whose
\* rows differ in their labels
C19_Witness ==
    /\ joined_df # Undefined
    /\ NRows(joined_df) >= 3
    /\ UniqueKeys(features_df)
    /\ features_df.index[1] > features_df.index[2]
    /\ labels_df.data[1] # labels_df.data[2]

====
